---- MODULE Spec2Model ----
(***************************************************************************)
(* Surge XT command line player and OSC dispatcher.                        *)
(*                                                                         *)
(*  - src/surge-xt/cli/cli-main.cpp: SurgePlayback, the MIDI ring buffer   *)
(*    (midiBuffer, midiWP, midiRP) filled by handleIncomingMidiMessage on  *)
(*    the MIDI driver thread and drained by                                *)
(*    audioDeviceIOCallbackWithContext on the audio thread.                *)
(*  - src/surge-xt/osc/OpenSoundControl.cpp: the OSC address dispatcher    *)
(*    (oscMessageReceived) and the outbound sender.                        *)
(***************************************************************************)
EXTENDS Integers, Sequences, FiniteSets, TLC

(***************************************************************************)
(* Bounds of the model.                                                    *)
(***************************************************************************)
\* midiBufferSz is 2^LogBufferSz (4096 = 2^12 in the source, scaled down).
LogBufferSz == 2
\* Number of MIDI messages the driver delivers in one run.
MaxPush == 6
\* BLOCK_SIZE of the engine, scaled down.
BlockSizeBound == 2
\* Largest numSamples the audio device asks for in one callback.
MaxNumSamples == 3
\* Number of audio callbacks in one run.
MaxCallbacks == 3
\* Number of OSC messages the receiver delivers in one run.
MaxMsgs == 2
\* Number of calls of OpenSoundControl::send in one run.
MaxSends == 3
\* Number of OSC bundles the receiver delivers in one run.
MaxBundles == 2
\* FILENAME_MAX of <cstdio> (4096 on Linux, 260 on Windows), scaled down.
FilenameMaxBound == 8

(***************************************************************************)
(* cli-main.cpp: constants and pure helpers.                               *)
(***************************************************************************)
RECURSIVE Pow2(_)
Pow2(n) == IF n = 0 THEN 1 ELSE 2 * Pow2(n - 1)

\* Bitwise and of two naturals (the C++ operator &).
RECURSIVE BitAnd(_, _)
BitAnd(a, b) ==
    IF a = 0 \/ b = 0 THEN 0
    ELSE (a % 2) * (b % 2) + 2 * BitAnd(a \div 2, b \div 2)

midiBufferSz == Pow2(LogBufferSz)
midiBufferSzMask == midiBufferSz - 1
BLOCK_SIZE == BlockSizeBound

\* A default constructed juce::MidiMessage (a slot never written).
NoMessage == 0
\* What a read of a slot yields when it overlaps the producer's assignment to
\* that slot and sees part of the old and part of the new message.
Torn == -1

\* The k-th message the driver delivers is the number k.
Messages == 1 .. MaxPush

VARIABLES
    \* ---- SurgePlayback (cli-main.cpp)
    midiBuffer,     \* std::array<juce::MidiMessage, midiBufferSz>
    midiWP,         \* std::atomic<int>, written by the MIDI thread
    midiRP,         \* std::atomic<int>, written by the audio thread
    pos,            \* int pos = BLOCK_SIZE
    ppc,            \* MIDI thread: position in handleIncomingMidiMessage
    pushed,         \* MIDI thread: calls of handleIncomingMidiMessage that returned
    cpc,            \* audio thread: position in audioDeviceIOCallbackWithContext
    numSamples,     \* audio thread: argument of the running callback
    i,              \* audio thread: loop counter
    mw,             \* audio thread: local snapshot of midiWP
    callbacks,      \* audio callbacks started so far
    \* ---- the engine as seen from SurgePlayback (proc, proc->surge)
    applied,        \* arguments of proc->applyMidi, in call order
    processCount,   \* calls of proc->surge->process()
    oscPolls,       \* calls of proc->processBlockOSC()
    oscPolledSinceProcess, \* processBlockOSC ran after the last process()
    out,            \* frames copied to outputChannelData: <<block, pos>>
    \* ---- OpenSoundControl (OpenSoundControl.cpp)
    listening,      \* bool listening
    sendingOSC,     \* bool sendingOSC
    oscListenerRunning, \* synth->storage.oscListenerRunning
    oscSending,     \* synth->storage.oscSending
    lastCall,       \* the caller's note of its last call of initOSCIn,
                    \* stopListening, initOSCOut or stopSending, with what
                    \* connect returned
    npc,            \* OSC receiver thread: position in oscMessageReceived
    dataStr,        \* OSC receiver thread: local dataStr of the patch/load branch
    received,       \* the messages handed to oscMessageReceived so far
    oscOutcome,     \* how the last oscMessageReceived ended
    oscRingBuf,     \* sspPtr->oscRingBuf: the oscParamMsg pushed, in order
    patchid_file,   \* synth->patchid_file: char[FILENAME_MAX]
    has_patchid_file, \* synth->has_patchid_file
    patchLoadSpawnMutex, \* synth->patchLoadSpawnMutex: its holder
    audioThreadOpsCalls, \* calls of processAudioThreadOpsWhenAudioEngineUnavailable
    epc,            \* engine housekeeping pass: position
    loadedPatches,  \* the paths the engine took out of the slot
    asyncQueue,     \* juce::MessageManager::callAsync: the queued lambdas
    engineCalls,    \* the synth operations invoked, in order
    userDefaults,   \* Surge::Storage user defaults LastSCLPath, LastKBMPath
    errorReports,   \* calls of synth->storage.reportError
    sentOSC,        \* juceOSCSender.send: the messages handed to the socket
    sendErrors,     \* "Error: could not send OSC message." lines written
    sendCalls,      \* the calls of OpenSoundControl::send made so far
    bundlesReceived, \* the bundles handed to oscBundleReceived by the receiver
    bundleStack     \* OSC receiver thread: the running oscBundleReceived calls

midiVars == <<midiBuffer, midiWP, midiRP, pos, ppc, pushed, cpc, numSamples, i,
              mw, callbacks, applied, processCount, oscPolls,
              oscPolledSinceProcess, out>>

flagVars == <<listening, sendingOSC, oscListenerRunning, oscSending, lastCall>>

loadVars == <<patchid_file, has_patchid_file, patchLoadSpawnMutex,
              audioThreadOpsCalls, epc, loadedPatches>>

sendVars == <<sendErrors, sendCalls>>

bundleVars == <<bundlesReceived, bundleStack>>

oscVars == <<flagVars, npc, dataStr, received, oscOutcome, oscRingBuf, loadVars,
             asyncQueue, engineCalls, userDefaults, errorReports, sentOSC,
             sendVars, bundleVars>>

vars == <<midiVars, oscVars>>

(***************************************************************************)
(* SurgePlayback::handleIncomingMidiMessage, on the MIDI driver thread.    *)
(*     midiBuffer[midiWP] = message;                                       *)
(*     midiWP = (midiWP + 1) & midiBufferSzMask;                           *)
(* The assignment of a juce::MidiMessage is not atomic: it is in progress  *)
(* between PushBegin and PushStore.                                        *)
(***************************************************************************)
\* A variant that advances an index by two slots.
NextIndexByTwo(x) == BitAnd(x + 2, midiBufferSzMask)

NextIndex(x) == BitAnd(x + 1, midiBufferSzMask)

PushBegin ==
    /\ ppc = "idle"
    /\ pushed < MaxPush
    /\ ppc' = "write"
    /\ UNCHANGED <<midiBuffer, midiWP, midiRP, pos, pushed, cpc, numSamples, i,
                   mw, callbacks, applied, processCount, oscPolls,
                   oscPolledSinceProcess, out,
                   oscVars>>

\* A variant that stores the message one slot further on.
PushStoreNextSlot ==
    /\ ppc = "write"
    /\ midiBuffer' = [midiBuffer EXCEPT ![NextIndex(midiWP)] = pushed + 1]
    /\ ppc' = "advance"
    /\ UNCHANGED <<midiWP, midiRP, pos, pushed, cpc, numSamples, i,
                   mw, callbacks, applied, processCount, oscPolls,
                   oscPolledSinceProcess, out,
                   oscVars>>

PushStore ==
    /\ ppc = "write"
    /\ midiBuffer' = [midiBuffer EXCEPT ![midiWP] = pushed + 1]
    /\ ppc' = "advance"
    /\ UNCHANGED <<midiWP, midiRP, pos, pushed, cpc, numSamples, i,
                   mw, callbacks, applied, processCount, oscPolls,
                   oscPolledSinceProcess, out,
                   oscVars>>

PushAdvance ==
    /\ ppc = "advance"
    /\ midiWP' = NextIndex(midiWP)
    /\ pushed' = pushed + 1
    /\ ppc' = "idle"
    /\ UNCHANGED <<midiBuffer, midiRP, pos, cpc, numSamples, i,
                   mw, callbacks, applied, processCount, oscPolls,
                   oscPolledSinceProcess, out,
                   oscVars>>

handleIncomingMidiMessage == PushBegin \/ PushStore \/ PushAdvance

(***************************************************************************)
(* SurgePlayback::audioDeviceIOCallbackWithContext, on the audio thread.   *)
(***************************************************************************)
\* proc->processBlockOSC(): one more poll of the queued OSC work.
ProcessBlockOSCNever(polls) == polls
ProcessBlockOSC(polls) == polls + 1

\* for (int i = 0; i < numSamples; ++i)
LoopCondInclusive(k, n) == k <= n
LoopCond(k, n) == k < n

\* if (pos >= BLOCK_SIZE)
AtBlockBoundaryEarly(p) == p >= BLOCK_SIZE - 1
AtBlockBoundary(p) == p >= BLOCK_SIZE

\* The values a read of midiBuffer[s] can yield. The slot is a plain object: a
\* read that overlaps the producer's assignment to the same slot is a data
\* race, and yields the old message, the new one, or a mix of both.
SlotRead(s) ==
    IF ppc = "write" /\ midiWP = s
    THEN {midiBuffer[s], pushed + 1, Torn}
    ELSE {midiBuffer[s]}

\* Entry: proc->processBlockOSC(); then the loop starts with i = 0.
CallbackBegin(n) ==
    /\ cpc = "idle"
    /\ callbacks < MaxCallbacks
    /\ callbacks' = callbacks + 1
    /\ numSamples' = n
    /\ i' = 0
    /\ oscPolls' = ProcessBlockOSC(oscPolls)
    /\ oscPolledSinceProcess' = (oscPolls' # oscPolls)
    /\ cpc' = "loop"
    /\ UNCHANGED <<midiBuffer, midiWP, midiRP, pos, ppc, pushed, mw, applied,
                   processCount, out,
                   oscVars>>

\* The loop condition fails: the callback returns.
CallbackReturn ==
    /\ cpc = "loop"
    /\ ~LoopCond(i, numSamples)
    /\ cpc' = "idle"
    /\ UNCHANGED <<midiBuffer, midiWP, midiRP, pos, ppc, pushed, numSamples, i,
                   mw, callbacks, applied, processCount, oscPolls,
                   oscPolledSinceProcess, out,
                   oscVars>>

\* int mw = midiWP;
Snapshot ==
    /\ cpc = "loop"
    /\ LoopCond(i, numSamples)
    /\ AtBlockBoundary(pos)
    /\ mw' = midiWP
    /\ cpc' = "drain"
    /\ UNCHANGED <<midiBuffer, midiWP, midiRP, pos, ppc, pushed, numSamples, i,
                   callbacks, applied, processCount, oscPolls,
                   oscPolledSinceProcess, out,
                   oscVars>>

\* One iteration of while (mw != midiRP): applyMidi(midiBuffer[midiRP]) and
\* midiRP = (midiRP + 1) & midiBufferSzMask. The producer never reads midiRP,
\* so the two statements are one step for every observer.
Drain ==
    /\ cpc = "drain"
    /\ mw # midiRP
    /\ \E v \in SlotRead(midiRP) : applied' = Append(applied, v)
    /\ midiRP' = NextIndex(midiRP)
    /\ UNCHANGED <<midiBuffer, midiWP, pos, ppc, pushed, cpc, numSamples, i,
                   mw, callbacks, processCount, oscPolls,
                   oscPolledSinceProcess, out,
                   oscVars>>

\* The while loop ends; proc->surge->process(); pos = 0;
Process ==
    /\ cpc = "drain"
    /\ mw = midiRP
    /\ processCount' = processCount + 1
    /\ oscPolledSinceProcess' = FALSE
    /\ pos' = 0
    /\ cpc' = "copy"
    /\ UNCHANGED <<midiBuffer, midiWP, midiRP, ppc, pushed, numSamples, i,
                   mw, callbacks, applied, oscPolls, out,
                   oscVars>>

\* A variant of the copy without pos++.
CopyKeepsPos ==
    /\ \/ cpc = "copy"
       \/ cpc = "loop" /\ LoopCond(i, numSamples) /\ ~AtBlockBoundary(pos)
    /\ out' = Append(out, <<processCount, pos>>)
    /\ i' = i + 1
    /\ cpc' = "loop"
    /\ UNCHANGED <<midiBuffer, midiWP, midiRP, ppc, pushed, numSamples, pos,
                   mw, callbacks, applied, processCount, oscPolls,
                   oscPolledSinceProcess,
                   oscVars>>

\* outputChannelData[.][i] = proc->surge->output[.][pos]; pos++; then ++i.
Copy ==
    /\ \/ cpc = "copy"
       \/ cpc = "loop" /\ LoopCond(i, numSamples) /\ ~AtBlockBoundary(pos)
    /\ out' = Append(out, <<processCount, pos>>)
    /\ pos' = pos + 1
    /\ i' = i + 1
    /\ cpc' = "loop"
    /\ UNCHANGED <<midiBuffer, midiWP, midiRP, ppc, pushed, numSamples,
                   mw, callbacks, applied, processCount, oscPolls,
                   oscPolledSinceProcess,
                   oscVars>>

audioDeviceIOCallbackWithContext ==
    \/ \E n \in 0 .. MaxNumSamples : CallbackBegin(n)
    \/ CallbackReturn
    \/ Snapshot
    \/ Drain
    \/ Process
    \/ Copy

(***************************************************************************)
(* OpenSoundControl.cpp: strings, OSC messages and pure helpers.           *)
(* A std::string is the sequence of its characters.                        *)
(***************************************************************************)
FILENAME_MAX == FilenameMaxBound

\* The terminating character of a C string.
NUL == "NUL"

\* An OSC argument: its type tag, and its string or its number. A float32
\* number n stands for n / 2.
StrArg(s) == [t |-> "s", s |-> s, n |-> 0]
FltArg(x) == [t |-> "f", s |-> <<>>, n |-> x]
IntArg(x) == [t |-> "i", s |-> <<>>, n |-> x]

\* The address tokens the dispatcher compares against.
T_param == <<"p", "a", "r", "a", "m">>
T_patch == <<"p", "a", "t", "c", "h">>
T_load == <<"l", "o", "a", "d">>
T_save == <<"s", "a", "v", "e">>
T_random == <<"r", "a", "n", "d", "o", "m">>
T_incr == <<"i", "n", "c", "r">>
T_decr == <<"d", "e", "c", "r">>
T_incr_category == <<"i", "n", "c", "r", "_", "c", "a", "t", "e", "g", "o", "r", "y">>
T_decr_category == <<"d", "e", "c", "r", "_", "c", "a", "t", "e", "g", "o", "r", "y">>
T_tuning == <<"t", "u", "n", "i", "n", "g">>
T_path == <<"p", "a", "t", "h">>
T_scl == <<"s", "c", "l">>
T_kbm == <<"k", "b", "m">>
T_send_all_parameters == <<"s", "e", "n", "d", "_", "a", "l", "l", "_", "p", "a", "r", "a", "m", "e", "t", "e", "r", "s">>
T_reset == <<"_", "r", "e", "s", "e", "t">>
FxpExt == <<".", "f", "x", "p">>
SclExt == <<".", "s", "c", "l">>
KbmExt == <<".", "k", "b", "m">>

\* synth->storage.datapath, and the two library directories below it.
DataPath == <<"$">>
SclLibrary == <<"t", "u", "n", "i", "n", "g", "_", "l", "i", "b", "r", "a", "r", "y", "/", "S", "C", "L">>
KbmLibrary == <<"t", "u", "n", "i", "n", "g", "_", "l", "i", "b", "r", "a", "r", "y", "/", "K", "B", "M", " ", "C", "o", "n", "c", "e", "r", "t", " ", "P", "i", "t", "c", "h">>

\* The active patch: param_ptr, each Parameter with its OSC name, value type
\* and value (a vt_float value v stands for v / 2).
Params ==
    << [oscName |-> <<"/", "p", "a", "r", "a", "m", "/", "a">>, valtype |-> "vt_float", val |-> 1],
       [oscName |-> <<"/", "p", "a", "r", "a", "m", "/", "b">>, valtype |-> "vt_int", val |-> 7],
       [oscName |-> <<"/", "p", "a", "r", "a", "m", "/", "c">>, valtype |-> "vt_bool", val |-> 1],
       [oscName |-> <<"/", "p", "a", "r", "a", "m", "/", "d">>, valtype |-> "vt_other", val |-> 3] >>

\* SurgePatch::parameterFromOSCName: the parameter (its index in param_ptr)
\* whose OSC name is the address, or NULL.
NULL == 0
ParameterFromOSCName(addr) ==
    IF \E k \in DOMAIN Params : Params[k].oscName = addr
    THEN CHOOSE k \in DOMAIN Params : Params[k].oscName = addr
    ELSE NULL

\* fs::exists: the paths that exist on disk.
ExistingPaths == { <<"a">> }
\* A variant of fs::exists for which every path exists.
FsExistsAlways(p) == TRUE

FsExists(p) == p \in ExistingPaths

\* The messages the receiver delivers: each address with the argument lists
\* that matter to its branch.
Msgs(addrs, argLists) == [addr : addrs, args : argLists]

OscMessages ==
    Msgs({ <<>>, <<"p", "a", "r", "a", "m", "/", "a">> }, { <<>>, <<FltArg(1)>> })
    \cup Msgs({ <<"/", "p", "a", "r", "a", "m", "/", "a">>, <<"/", "p", "a", "r", "a", "m", "/", "z">> },
              { <<>>, <<FltArg(1)>>, <<IntArg(1)>>, <<StrArg(<<"a">>)>> })
    \cup Msgs({ <<"/", "p", "a", "t", "c", "h", "/", "l", "o", "a", "d">> },
              { <<>>, <<StrArg(<<"a">>)>>, <<StrArg(<<"a">>), StrArg(<<"b">>)>>,
                <<StrArg(<<"a", "b">>), StrArg(<<"b">>)>> })
    \cup Msgs({ <<"/", "p", "a", "t", "c", "h", "/", "s", "a", "v", "e">> },
              { <<>>, <<StrArg(<<>>)>>, <<StrArg(<<"a">>)>>,
                <<StrArg(<<"a">>), StrArg(<<"b">>)>> })
    \cup Msgs({ <<"/", "p", "a", "t", "c", "h", "/", "r", "a", "n", "d", "o", "m">>, <<"/", "p", "a", "t", "c", "h", "/", "i", "n", "c", "r">>, <<"/", "p", "a", "t", "c", "h", "/", "d", "e", "c", "r">>,
                <<"/", "p", "a", "t", "c", "h", "/", "i", "n", "c", "r", "_", "c", "a", "t", "e", "g", "o", "r", "y">>, <<"/", "p", "a", "t", "c", "h", "/", "d", "e", "c", "r", "_", "c", "a", "t", "e", "g", "o", "r", "y">>,
                <<"/", "s", "e", "n", "d", "_", "a", "l", "l", "_", "p", "a", "r", "a", "m", "e", "t", "e", "r", "s">>, <<"/", "z", "z", "z">> },
              { <<>> })
    \cup Msgs({ <<"/", "t", "u", "n", "i", "n", "g", "/", "p", "a", "t", "h", "/", "s", "c", "l">>, <<"/", "t", "u", "n", "i", "n", "g", "/", "p", "a", "t", "h", "/", "k", "b", "m">>, <<"/", "t", "u", "n", "i", "n", "g", "/", "s", "c", "l">>,
                <<"/", "t", "u", "n", "i", "n", "g", "/", "k", "b", "m">> },
              { <<StrArg(<<"a">>)>>, <<StrArg(<<"a">>), StrArg(<<"b">>)>>,
                <<StrArg(T_reset)>> })

\* std::getline(split, s, '/'): the characters up to the next '/' (or to the
\* end), the '/' itself being consumed.
RECURSIVE IndexOfSlash(_, _)
IndexOfSlash(s, k) ==
    IF k > Len(s) THEN 0
    ELSE IF s[k] = "/" THEN k
    ELSE IndexOfSlash(s, k + 1)

GetLine(s) ==
    IF IndexOfSlash(s, 1) = 0 THEN s ELSE SubSeq(s, 1, IndexOfSlash(s, 1) - 1)

AfterGetLine(s) ==
    IF IndexOfSlash(s, 1) = 0 THEN <<>> ELSE SubSeq(s, IndexOfSlash(s, 1) + 1, Len(s))

\* juce::OSCArgument::getString(): the string of a string argument, the
\* empty string for any other type.
GetString(a) == IF a.t = "s" THEN a.s ELSE <<>>

\* OpenSoundControl::getWholeString.
RECURSIVE WholeStringFrom(_, _)
WholeStringFrom(om, k) ==
    IF k > Len(om) THEN <<>>
    ELSE GetString(om[k])
            \o (IF k < Len(om) THEN <<" ">> ELSE <<>>)
            \o WholeStringFrom(om, k + 1)

GetWholeString(om) == WholeStringFrom(om, 1)

\* strncpy(dst, src, n) into a buffer of n characters: the first n characters
\* of src, padded with NUL when src is shorter; no NUL when it is not.
Strncpy(src, n) ==
    [k \in 1 .. n |-> IF k <= Len(src) THEN src[k] ELSE NUL]

\* fs::path: is_relative, operator/= and operator+=.
IsRelative(p) == p = <<>> \/ p[1] # "/"

PathAppend(p, q) ==
    IF ~IsRelative(q) THEN q
    ELSE IF p = <<>> \/ p[Len(p)] = "/" THEN p \o q
    ELSE p \o <<"/">> \o q

\* Surge::Storage::getUserDefaultPath(storage, key, default).
GetUserDefaultPath(key, default) ==
    IF userDefaults[key].set THEN userDefaults[key].path ELSE default

\* std::to_string of an int, and of a float (printed with %f).
Digits == <<"0", "1", "2", "3", "4", "5", "6", "7", "8", "9">>

RECURSIVE IntToString(_)
IntToString(n) ==
    IF n < 0 THEN <<"-">> \o IntToString(0 - n)
    ELSE IF n < 10 THEN <<Digits[n + 1]>>
    ELSE IntToString(n \div 10) \o <<Digits[(n % 10) + 1]>>

FloatToString(v) ==
    IntToString(v \div 2) \o (IF v % 2 = 1 THEN <<".", "5", "0", "0", "0", "0", "0">> ELSE <<".", "0", "0", "0", "0", "0", "0">>)

\* The body of the lambda of sendAllParams: one message per parameter from the
\* k-th on; valStr is declared outside the loop and keeps its value when the
\* switch takes the default branch.
RECURSIVE DumpFrom(_, _)
DumpFrom(k, valStr) ==
    IF k > Len(Params) THEN <<>>
    ELSE LET p == Params[k]
             s == CASE p.valtype = "vt_int" -> IntToString(p.val)
                    [] p.valtype = "vt_bool" -> IntToString(p.val)
                    [] p.valtype = "vt_float" -> FloatToString(p.val)
                    [] OTHER -> valStr
         IN  <<[addr |-> p.oscName, msg |-> s]>> \o DumpFrom(k + 1, s)

\* The process is running: no exception has left oscMessageReceived and no
\* out-of-bounds read has brought it down.
Alive == oscOutcome \notin {"threw", "crashed"}

\* What reading message[0] of a message without arguments can yield.
Garbage == -1

(***************************************************************************)
(* OpenSoundControl::initOSCIn / stopListening / initOSCOut / stopSending. *)
(* connected is what connect(port) returns. lastCall, the note of the call  *)
(* made, is kept by the caller.                                            *)
(***************************************************************************)
initOSCIn(connected) ==
    /\ Alive
    /\ IF connected
       THEN /\ listening' = TRUE
            /\ oscListenerRunning' = TRUE
       ELSE UNCHANGED <<listening, oscListenerRunning>>
    /\ UNCHANGED <<sendingOSC, oscSending, npc, dataStr, received, oscOutcome,
                   oscRingBuf, loadVars, asyncQueue, engineCalls, userDefaults,
                   errorReports, sentOSC, midiVars, sendVars, bundleVars>>

\* A variant of stopListening on a dispatcher whose synth is null.
stopListeningWithoutSynth ==
    /\ Alive
    /\ IF ~listening
       THEN UNCHANGED <<listening, oscListenerRunning>>
       ELSE /\ listening' = FALSE
            /\ UNCHANGED oscListenerRunning
    /\ UNCHANGED <<sendingOSC, oscSending, npc, dataStr, received, oscOutcome,
                   oscRingBuf, loadVars, asyncQueue, engineCalls, userDefaults,
                   errorReports, sentOSC, midiVars, sendVars, bundleVars>>

stopListening ==
    /\ Alive
    /\ IF ~listening
       THEN UNCHANGED <<listening, oscListenerRunning>>
       ELSE /\ listening' = FALSE
            /\ oscListenerRunning' = FALSE
    /\ UNCHANGED <<sendingOSC, oscSending, npc, dataStr, received, oscOutcome,
                   oscRingBuf, loadVars, asyncQueue, engineCalls, userDefaults,
                   errorReports, sentOSC, midiVars, sendVars, bundleVars>>

initOSCOut(connected) ==
    /\ Alive
    /\ IF ~connected
       THEN UNCHANGED <<sendingOSC, oscSending>>
       ELSE /\ sendingOSC' = TRUE
            /\ oscSending' = TRUE
    /\ UNCHANGED <<listening, oscListenerRunning, npc, dataStr, received,
                   oscOutcome, oscRingBuf, loadVars, asyncQueue, engineCalls,
                   userDefaults, errorReports, sentOSC, midiVars, sendVars,
                   bundleVars>>

stopSending ==
    /\ Alive
    /\ IF ~sendingOSC
       THEN UNCHANGED <<sendingOSC, oscSending>>
       ELSE /\ sendingOSC' = FALSE
            /\ oscSending' = FALSE
    /\ UNCHANGED <<listening, oscListenerRunning, npc, dataStr, received,
                   oscOutcome, oscRingBuf, loadVars, asyncQueue, engineCalls,
                   userDefaults, errorReports, sentOSC, midiVars, sendVars,
                   bundleVars>>

(***************************************************************************)
(* OpenSoundControl::oscMessageReceived, on the OSC receiver thread.       *)
(***************************************************************************)
\* The dispatch returns to the receiver.
Returned ==
    /\ oscOutcome' = "returned"
    /\ npc' = "idle"

\* return without having done anything.
Dropped ==
    /\ Returned
    /\ UNCHANGED <<dataStr, oscRingBuf, asyncQueue, engineCalls, userDefaults,
                   errorReports>>

\* A synth operation invoked directly from the dispatcher.
CallEngine(op, arg) ==
    /\ Returned
    /\ engineCalls' = Append(engineCalls, [op |-> op, arg |-> arg])
    /\ UNCHANGED <<dataStr, oscRingBuf, asyncQueue, userDefaults, errorReports>>

\* sspPtr->oscRingBuf.push(SurgeSynthProcessor::oscParamMsg(p, f)).
PushParam(p, f) ==
    /\ Returned
    /\ oscRingBuf' = Append(oscRingBuf, [p |-> p, f |-> f])
    /\ UNCHANGED <<dataStr, asyncQueue, engineCalls, userDefaults, errorReports>>

\* juce::MessageManager::getInstance()->callAsync(task).
CallAsync(task) ==
    /\ Returned
    /\ asyncQueue' = Append(asyncQueue, task)
    /\ UNCHANGED <<dataStr, oscRingBuf, engineCalls, userDefaults, errorReports>>

\* Surge::Storage::updateUserDefaultPath(&storage, key, path).
UpdateUserDefaultPath(key, path) ==
    /\ Returned
    /\ userDefaults' = [userDefaults EXCEPT ![key] = [set |-> TRUE, path |-> path]]
    /\ UNCHANGED <<dataStr, oscRingBuf, asyncQueue, engineCalls, errorReports>>

\* synth->storage.reportError(...); return;
ReportError ==
    /\ Returned
    /\ errorReports' = errorReports + 1
    /\ UNCHANGED <<dataStr, oscRingBuf, asyncQueue, engineCalls, userDefaults>>

\* addr.at(0) on an empty string throws std::out_of_range.
Threw ==
    /\ oscOutcome' = "threw"
    /\ npc' = "idle"
    /\ UNCHANGED <<dataStr, oscRingBuf, asyncQueue, engineCalls, userDefaults,
                   errorReports>>

\* The out-of-bounds read of message[0] brings the process down.
Crashed ==
    /\ oscOutcome' = "crashed"
    /\ npc' = "idle"
    /\ UNCHANGED <<dataStr, oscRingBuf, asyncQueue, engineCalls, userDefaults,
                   errorReports>>

\* address1 == "param". message[0] is read without a look at message.size():
\* with no argument the read is out of bounds, and either the process goes
\* down or isFloat32() and getFloat32() answer from whatever is there.
DispatchParam(m) ==
    LET p == ParameterFromOSCName(m.addr) IN
    IF p = NULL THEN Dropped
    ELSE IF m.args = <<>> THEN Dropped \/ PushParam(p, Garbage) \/ Crashed
    ELSE IF m.args[1].t # "f" THEN Dropped
    ELSE PushParam(p, m.args[1].n)

\* A variant of sendAllParams without the test of sendingOSC.
sendAllParamsUnguarded == CallAsync([kind |-> "dump", args |-> <<>>])

\* OpenSoundControl::sendAllParams: queue the dump when sending is on.
sendAllParams ==
    IF sendingOSC THEN CallAsync([kind |-> "dump", args |-> <<>>]) ELSE Dropped

\* address1 == "patch"; split holds the address after "patch/".
DispatchPatch(m, split) ==
    LET address2 == GetLine(split) IN
    IF address2 = T_load
    THEN /\ dataStr' = GetWholeString(m.args) \o FxpExt
         /\ npc' = "lock"
         /\ oscOutcome' = "running"
         /\ UNCHANGED <<oscRingBuf, asyncQueue, engineCalls, userDefaults,
                        errorReports>>
    ELSE IF address2 = T_save
    THEN CallAsync([kind |-> "save", args |-> m.args])
    ELSE IF address2 = T_random THEN CallEngine("selectRandomPatch", <<>>)
    ELSE IF address2 = T_incr THEN CallEngine("jogPatch", <<"t", "r", "u", "e">>)
    ELSE IF address2 = T_decr THEN CallEngine("jogPatch", <<"f", "a", "l", "s", "e">>)
    ELSE IF address2 = T_incr_category THEN CallEngine("jogCategory", <<"t", "r", "u", "e">>)
    ELSE IF address2 = T_decr_category THEN CallEngine("jogCategory", <<"f", "a", "l", "s", "e">>)
    ELSE Dropped

\* address1 == "tuning"; split holds the address after "tuning/".
DispatchTuning(m, split) ==
    LET path == GetWholeString(m.args)
        address2 == GetLine(split)
        address3 == GetLine(AfterGetLine(split))
        data == GetWholeString(m.args)
    IN
    IF address2 = T_path
    THEN IF data # T_reset /\ ~FsExists(data) THEN ReportError
         ELSE IF address3 = T_scl
         THEN UpdateUserDefaultPath("LastSCLPath",
                  IF data = T_reset THEN PathAppend(DataPath, SclLibrary) ELSE data)
         ELSE IF address3 = T_kbm
         THEN UpdateUserDefaultPath("LastKBMPath",
                  IF data = T_reset THEN PathAppend(DataPath, KbmLibrary) ELSE data)
         ELSE Dropped
    ELSE IF address2 = T_scl
    THEN CallEngine("loadTuningFromSCL",
             IF IsRelative(path)
             THEN PathAppend(GetUserDefaultPath("LastSCLPath",
                                 PathAppend(DataPath, SclLibrary)), path) \o SclExt
             ELSE path \o SclExt)
    ELSE IF address2 = T_kbm
    THEN CallEngine("loadMappingFromKBM",
             IF IsRelative(path)
             THEN PathAppend(GetUserDefaultPath("LastKBMPath",
                                 PathAppend(DataPath, KbmLibrary)), path) \o KbmExt
             ELSE path \o KbmExt)
    ELSE Dropped

\* oscMessageReceived(m): from its entry through every branch but the steps of
\* patch/load that follow the building of dataStr.
oscMessageReceived(m) ==
    /\ received' = Append(received, m)
    /\ IF m.addr = <<>> THEN Threw
       ELSE IF m.addr[1] # "/" THEN Dropped
       ELSE LET split == AfterGetLine(m.addr)
                address1 == GetLine(split)
            IN  IF address1 = T_param THEN DispatchParam(m)
                ELSE IF address1 = T_patch THEN DispatchPatch(m, AfterGetLine(split))
                ELSE IF address1 = T_tuning THEN DispatchTuning(m, AfterGetLine(split))
                ELSE IF address1 = T_send_all_parameters THEN sendAllParams
                ELSE Dropped
    /\ UNCHANGED <<flagVars, loadVars, sentOSC, midiVars, sendVars>>

\* The receiver hands a message that came on its own to oscMessageReceived.
ReceiveMessage(m) ==
    /\ Alive
    /\ listening
    /\ npc = "idle"
    /\ bundleStack = <<>>
    /\ Len(received) < MaxMsgs
    /\ oscMessageReceived(m)
    /\ UNCHANGED bundleVars

\* std::lock_guard<std::mutex> mg(synth->patchLoadSpawnMutex);
LoadLock ==
    /\ Alive
    /\ npc = "lock"
    /\ patchLoadSpawnMutex = "free"
    /\ patchLoadSpawnMutex' = "osc"
    /\ npc' = "copy"
    /\ UNCHANGED <<flagVars, dataStr, received, oscOutcome, oscRingBuf,
                   patchid_file, has_patchid_file, audioThreadOpsCalls, epc,
                   loadedPatches, asyncQueue, engineCalls, userDefaults,
                   errorReports, sentOSC, midiVars,
                   sendVars, bundleVars>>

\* strncpy(synth->patchid_file, dataStr.c_str(), FILENAME_MAX);
LoadCopy ==
    /\ Alive
    /\ npc = "copy"
    /\ patchid_file' = Strncpy(dataStr, FILENAME_MAX)
    /\ npc' = "flag"
    /\ UNCHANGED <<flagVars, dataStr, received, oscOutcome, oscRingBuf,
                   has_patchid_file, patchLoadSpawnMutex, audioThreadOpsCalls,
                   epc, loadedPatches, asyncQueue, engineCalls, userDefaults,
                   errorReports, sentOSC, midiVars,
                   sendVars, bundleVars>>

\* synth->has_patchid_file = true;
LoadFlag ==
    /\ Alive
    /\ npc = "flag"
    /\ has_patchid_file' = TRUE
    /\ npc' = "unlock"
    /\ UNCHANGED <<flagVars, dataStr, received, oscOutcome, oscRingBuf,
                   patchid_file, patchLoadSpawnMutex, audioThreadOpsCalls,
                   epc, loadedPatches, asyncQueue, engineCalls, userDefaults,
                   errorReports, sentOSC, midiVars,
                   sendVars, bundleVars>>

\* A variant in which the lock_guard lives to the end of the branch.
LoadUnlockKeepsMutex ==
    /\ Alive
    /\ npc = "unlock"
    /\ npc' = "signal"
    /\ UNCHANGED <<flagVars, dataStr, received, oscOutcome, oscRingBuf,
                   loadVars, asyncQueue, engineCalls, userDefaults,
                   errorReports, sentOSC, midiVars, sendVars, bundleVars>>

\* The lock_guard goes out of scope.
LoadUnlock ==
    /\ Alive
    /\ npc = "unlock"
    /\ patchLoadSpawnMutex' = "free"
    /\ npc' = "signal"
    /\ UNCHANGED <<flagVars, dataStr, received, oscOutcome, oscRingBuf,
                   patchid_file, has_patchid_file, audioThreadOpsCalls,
                   epc, loadedPatches, asyncQueue, engineCalls, userDefaults,
                   errorReports, sentOSC, midiVars,
                   sendVars, bundleVars>>

\* synth->processAudioThreadOpsWhenAudioEngineUnavailable(); and return.
LoadSignal ==
    /\ Alive
    /\ npc = "signal"
    /\ audioThreadOpsCalls' = audioThreadOpsCalls + 1
    /\ oscOutcome' = "returned"
    /\ npc' = "idle"
    /\ UNCHANGED <<flagVars, dataStr, received, oscRingBuf,
                   patchid_file, has_patchid_file, patchLoadSpawnMutex,
                   epc, loadedPatches, asyncQueue, engineCalls, userDefaults,
                   errorReports, sentOSC, midiVars,
                   sendVars, bundleVars>>

(***************************************************************************)
(* The engine's housekeeping pass, which takes the pending patch-load      *)
(* request out of the slot under patchLoadSpawnMutex.                      *)
(***************************************************************************)
EngineLock ==
    /\ Alive
    /\ epc = "idle"
    /\ has_patchid_file
    /\ patchLoadSpawnMutex = "free"
    /\ patchLoadSpawnMutex' = "engine"
    /\ epc' = "take"
    /\ UNCHANGED <<flagVars, npc, dataStr, received, oscOutcome, oscRingBuf,
                   patchid_file, has_patchid_file, audioThreadOpsCalls,
                   loadedPatches, asyncQueue, engineCalls, userDefaults,
                   errorReports, sentOSC, midiVars,
                   sendVars, bundleVars>>

EngineTake ==
    /\ Alive
    /\ epc = "take"
    /\ loadedPatches' = Append(loadedPatches, patchid_file)
    /\ has_patchid_file' = FALSE
    /\ epc' = "unlock"
    /\ UNCHANGED <<flagVars, npc, dataStr, received, oscOutcome, oscRingBuf,
                   patchid_file, patchLoadSpawnMutex, audioThreadOpsCalls,
                   asyncQueue, engineCalls, userDefaults, errorReports, sentOSC,
                   midiVars,
                   sendVars, bundleVars>>

EngineUnlock ==
    /\ Alive
    /\ epc = "unlock"
    /\ patchLoadSpawnMutex' = "free"
    /\ epc' = "idle"
    /\ UNCHANGED <<flagVars, npc, dataStr, received, oscOutcome, oscRingBuf,
                   patchid_file, has_patchid_file, audioThreadOpsCalls,
                   loadedPatches, asyncQueue, engineCalls, userDefaults,
                   errorReports, sentOSC, midiVars,
                   sendVars, bundleVars>>

(***************************************************************************)
(* The JUCE message thread runs the lambdas queued with callAsync, oldest  *)
(* first.                                                                  *)
(***************************************************************************)
\* A variant of the lambda that saves to a path whatever dataStr is.
SaveLambdaAlwaysToPath(args) ==
    [op |-> "savePatchToPath", arg |-> GetWholeString(args) \o FxpExt]

\* The body of the lambda of the patch/save branch: the synth operation it
\* invokes for the captured message.
SaveLambda(args) ==
    LET data == GetWholeString(args) IN
    IF data = <<>>
    THEN [op |-> "savePatch", arg |-> <<>>]
    ELSE [op |-> "savePatchToPath", arg |-> data \o FxpExt]

\* The message thread runs the lambda of the patch/save branch.
RunSave ==
    /\ Alive
    /\ asyncQueue # <<>>
    /\ Head(asyncQueue).kind = "save"
    /\ asyncQueue' = Tail(asyncQueue)
    /\ engineCalls' = Append(engineCalls, SaveLambda(Head(asyncQueue).args))
    /\ UNCHANGED <<flagVars, npc, dataStr, received, oscOutcome, oscRingBuf,
                   loadVars, userDefaults, errorReports, sentOSC, midiVars,
                   sendVars, bundleVars>>

\* The message thread runs the lambda of sendAllParams; each of its
\* juceOSCSender.send calls can fail, which is logged.
RunDump ==
    /\ Alive
    /\ asyncQueue # <<>>
    /\ Head(asyncQueue).kind = "dump"
    /\ asyncQueue' = Tail(asyncQueue)
    /\ sentOSC' = sentOSC \o DumpFrom(1, <<>>)
    /\ \E failed \in 0 .. Len(Params) : sendErrors' = sendErrors + failed
    /\ UNCHANGED <<flagVars, npc, dataStr, received, oscOutcome, oscRingBuf,
                   loadVars, engineCalls, userDefaults, errorReports, midiVars,
                   sendCalls, bundleVars>>


(***************************************************************************)
(* OpenSoundControl::send, and its lambda on the JUCE message thread.      *)
(***************************************************************************)
\* The (address, value) pairs send is called with.
SendInputs == [addr : { <<"/", "x">> }, msg : { <<"1">>, <<"2">> }]

\* send(addr, msg), on the caller's thread: queue the lambda when sending is
\* on. sendCalls keeps the call and the value of sendingOSC it saw.
send(addr, msg) ==
    /\ Alive
    /\ Len(sendCalls) < MaxSends
    /\ sendCalls' = Append(sendCalls, [addr |-> addr, msg |-> msg, on |-> sendingOSC])
    /\ IF sendingOSC
       THEN asyncQueue' = Append(asyncQueue,
                [kind |-> "send", args |-> <<StrArg(addr), StrArg(msg)>>])
       ELSE UNCHANGED asyncQueue
    /\ UNCHANGED <<flagVars, npc, dataStr, received, oscOutcome, oscRingBuf,
                   loadVars, engineCalls, userDefaults, errorReports, sentOSC,
                   sendErrors, midiVars, bundleVars>>

\* A variant of the lambda that queues itself again when the transport fails.
RunSendRetrying(ok) ==
    /\ Alive
    /\ asyncQueue # <<>>
    /\ Head(asyncQueue).kind = "send"
    /\ asyncQueue' = IF ok THEN Tail(asyncQueue) ELSE asyncQueue
    /\ sentOSC' = Append(sentOSC, [addr |-> Head(asyncQueue).args[1].s,
                                   msg |-> Head(asyncQueue).args[2].s])
    /\ sendErrors' = IF ok THEN sendErrors ELSE sendErrors + 1
    /\ UNCHANGED <<flagVars, npc, dataStr, received, oscOutcome, oscRingBuf,
                   loadVars, engineCalls, userDefaults, errorReports, midiVars,
                   sendCalls, bundleVars>>

\* The message thread runs the lambda of send: one juceOSCSender.send, whose
\* result ok is what the transport reports; a failure is logged.
RunSend(ok) ==
    /\ Alive
    /\ asyncQueue # <<>>
    /\ Head(asyncQueue).kind = "send"
    /\ asyncQueue' = Tail(asyncQueue)
    /\ sentOSC' = Append(sentOSC, [addr |-> Head(asyncQueue).args[1].s,
                                   msg |-> Head(asyncQueue).args[2].s])
    /\ sendErrors' = IF ok THEN sendErrors ELSE sendErrors + 1
    /\ UNCHANGED <<flagVars, npc, dataStr, received, oscOutcome, oscRingBuf,
                   loadVars, engineCalls, userDefaults, errorReports, midiVars,
                   sendCalls, bundleVars>>

(***************************************************************************)
(* OpenSoundControl::oscBundleReceived. An element of a bundle is a        *)
(* message or a bundle; bundleStack holds, for each running call of        *)
(* oscBundleReceived, its bundle and its loop counter i (from 1).          *)
(***************************************************************************)
NoMsg == [addr |-> <<>>, args |-> <<>>]
MsgElem(addr, args) ==
    [isMessage |-> TRUE, msg |-> [addr |-> addr, args |-> args], bundle |-> <<>>]
BundleElem(b) == [isMessage |-> FALSE, msg |-> NoMsg, bundle |-> b]

\* The bundles the receiver delivers.
OscBundles ==
    { <<>>,
      << MsgElem(<<"/", "p", "a", "t", "c", "h", "/", "r", "a", "n", "d", "o", "m">>, <<>>),
         BundleElem(<< MsgElem(<<"/", "p", "a", "t", "c", "h", "/", "i", "n", "c", "r">>, <<>>),
                       MsgElem(<<"p", "a", "r", "a", "m", "/", "a">>, <<FltArg(1)>>),
                       BundleElem(<< MsgElem(<<"/", "p", "a", "t", "c", "h", "/", "d", "e", "c", "r">>, <<>>) >>) >>),
         MsgElem(<<"/", "p", "a", "t", "c", "h", "/", "d", "e", "c", "r", "_", "c", "a", "t", "e", "g", "o", "r", "y">>, <<>>) >>,
      << MsgElem(<<"/", "t", "u", "n", "i", "n", "g", "/", "p", "a", "t", "h", "/", "s", "c", "l">>, <<StrArg(<<"a">>), StrArg(<<"b">>)>>),
         MsgElem(<<"/", "p", "a", "t", "c", "h", "/", "l", "o", "a", "d">>, <<StrArg(<<"a">>)>>),
         MsgElem(<<"/", "p", "a", "r", "a", "m", "/", "a">>, <<FltArg(1)>>) >>,
      << BundleElem(<<>>), MsgElem(<<"/", "z", "z", "z">>, <<>>) >>,
      << MsgElem(<<>>, <<>>), MsgElem(<<"/", "p", "a", "t", "c", "h", "/", "r", "a", "n", "d", "o", "m">>, <<>>) >>,
      << MsgElem(<<"/", "p", "a", "r", "a", "m", "/", "a">>, <<>>), MsgElem(<<"/", "p", "a", "t", "c", "h", "/", "i", "n", "c", "r">>, <<>>) >> }

\* The receiver hands a bundle that came on its own to oscBundleReceived.
ReceiveBundle(b) ==
    /\ Alive
    /\ listening
    /\ npc = "idle"
    /\ bundleStack = <<>>
    /\ Len(bundlesReceived) < MaxBundles
    /\ bundlesReceived' = Append(bundlesReceived, b)
    /\ bundleStack' = <<[bundle |-> b, i |-> 1]>>
    /\ UNCHANGED <<flagVars, npc, dataStr, received, oscOutcome, oscRingBuf,
                   loadVars, asyncQueue, engineCalls, userDefaults,
                   errorReports, sentOSC, sendVars, midiVars>>

\* The innermost running call, and the stack with its i advanced.
TopFrame == bundleStack[Len(bundleStack)]
NextElem == [bundleStack EXCEPT ![Len(bundleStack)].i = @ + 1]

\* elem.isMessage(): oscMessageReceived(elem.getMessage()). An exception
\* thrown there leaves every running oscBundleReceived.
BundleMessage ==
    /\ Alive
    /\ npc = "idle"
    /\ bundleStack # <<>>
    /\ TopFrame.i <= Len(TopFrame.bundle)
    /\ TopFrame.bundle[TopFrame.i].isMessage
    /\ oscMessageReceived(TopFrame.bundle[TopFrame.i].msg)
    /\ bundleStack' = IF oscOutcome' = "threw" THEN <<>> ELSE NextElem
    /\ UNCHANGED bundlesReceived

\* elem.isBundle(): oscBundleReceived(elem.getBundle()).
BundleNested ==
    /\ Alive
    /\ npc = "idle"
    /\ bundleStack # <<>>
    /\ TopFrame.i <= Len(TopFrame.bundle)
    /\ ~TopFrame.bundle[TopFrame.i].isMessage
    /\ bundleStack' = Append(NextElem,
            [bundle |-> TopFrame.bundle[TopFrame.i].bundle, i |-> 1])
    /\ UNCHANGED <<flagVars, npc, dataStr, received, oscOutcome, oscRingBuf,
                   loadVars, asyncQueue, engineCalls, userDefaults,
                   errorReports, sentOSC, sendVars, midiVars, bundlesReceived>>

\* i == bundle.size(): the loop ends and the call returns.
BundleReturn ==
    /\ Alive
    /\ npc = "idle"
    /\ bundleStack # <<>>
    /\ TopFrame.i > Len(TopFrame.bundle)
    /\ bundleStack' = SubSeq(bundleStack, 1, Len(bundleStack) - 1)
    /\ UNCHANGED <<flagVars, npc, dataStr, received, oscOutcome, oscRingBuf,
                   loadVars, asyncQueue, engineCalls, userDefaults,
                   errorReports, sentOSC, sendVars, midiVars, bundlesReceived>>

oscBundleReceived ==
    \/ BundleMessage
    \/ BundleNested
    \/ BundleReturn
(***************************************************************************)
(* Initial state: SurgePlayback as constructed.                            *)
(***************************************************************************)
Init ==
    /\ midiBuffer = [s \in 0 .. midiBufferSz - 1 |-> NoMessage]
    /\ midiWP = 0
    /\ midiRP = 0
    /\ pos = BLOCK_SIZE
    /\ ppc = "idle"
    /\ pushed = 0
    /\ cpc = "idle"
    /\ numSamples = 0
    /\ i = 0
    /\ mw = 0
    /\ callbacks = 0
    /\ applied = <<>>
    /\ processCount = 0
    /\ oscPolls = 0
    /\ oscPolledSinceProcess = FALSE
    /\ out = <<>>
    /\ listening = FALSE
    /\ sendingOSC = FALSE
    /\ oscListenerRunning = FALSE
    /\ oscSending = FALSE
    /\ lastCall = [op |-> "none", connected |-> FALSE]
    /\ npc = "idle"
    /\ dataStr = <<>>
    /\ received = <<>>
    /\ oscOutcome = "none"
    /\ oscRingBuf = <<>>
    /\ patchid_file = [k \in 1 .. FILENAME_MAX |-> NUL]
    /\ has_patchid_file = FALSE
    /\ patchLoadSpawnMutex = "free"
    /\ audioThreadOpsCalls = 0
    /\ epc = "idle"
    /\ loadedPatches = <<>>
    /\ asyncQueue = <<>>
    /\ engineCalls = <<>>
    /\ userDefaults = [key \in {"LastSCLPath", "LastKBMPath"} |->
                          [set |-> FALSE, path |-> <<>>]]
    /\ errorReports = 0
    /\ sentOSC = <<>>
    /\ sendErrors = 0
    /\ sendCalls = <<>>
    /\ bundlesReceived = <<>>
    /\ bundleStack = <<>>

\* The MIDI thread and the audio thread run concurrently.
Next ==
    \/ handleIncomingMidiMessage
    \/ audioDeviceIOCallbackWithContext

Spec == Init /\ [][Next]_vars

\* The audio thread is never blocked (it takes no lock and waits for nothing):
\* a callback that has started runs on until it returns.
CallbackRuns == CallbackReturn \/ Snapshot \/ Drain \/ Process \/ Copy

SpecLive == Spec /\ WF_vars(CallbackRuns)

\* The driver delivers all its messages before the audio device starts: the
\* pushes happen before any drain.
NextBatch ==
    \/ callbacks = 0 /\ handleIncomingMidiMessage
    \/ ppc = "idle" /\ audioDeviceIOCallbackWithContext

SpecBatch == Init /\ [][NextBatch]_vars

\* The OSC side: the receiver thread, the thread that starts and stops OSC,
\* the engine's housekeeping pass and the JUCE message thread.
NextOSC ==
    \/ \E connected \in BOOLEAN : initOSCIn(connected) /\ UNCHANGED lastCall
    \/ stopListening /\ UNCHANGED lastCall
    \/ \E connected \in BOOLEAN : initOSCOut(connected) /\ UNCHANGED lastCall
    \/ stopSending /\ UNCHANGED lastCall
    \/ \E m \in OscMessages : ReceiveMessage(m)
    \/ LoadLock
    \/ LoadCopy
    \/ LoadFlag
    \/ LoadUnlock
    \/ LoadSignal
    \/ EngineLock
    \/ EngineTake
    \/ EngineUnlock
    \/ RunSave
    \/ RunDump

SpecOSC == Init /\ [][NextOSC]_vars


\* The outbound sender: the thread that starts and stops sending, a thread
\* that calls send, the receiver dispatching send_all_parameters, and the
\* JUCE message thread.
SendAllMessages == Msgs({ <<"/", "s", "e", "n", "d", "_", "a", "l", "l", "_", "p", "a", "r", "a", "m", "e", "t", "e", "r", "s">> }, { <<>> })

NextSend ==
    \/ \E connected \in BOOLEAN : initOSCIn(connected) /\ UNCHANGED lastCall
    \/ \E connected \in BOOLEAN : initOSCOut(connected) /\ UNCHANGED lastCall
    \/ stopSending /\ UNCHANGED lastCall
    \/ \E c \in SendInputs : send(c.addr, c.msg)
    \/ \E m \in SendAllMessages : ReceiveMessage(m)
    \/ \E ok \in BOOLEAN : RunSend(ok)
    \/ RunDump

SpecSend == Init /\ [][NextSend]_vars

\* The receiver delivering bundles.
NextBundle ==
    \/ \E connected \in BOOLEAN : initOSCIn(connected) /\ UNCHANGED lastCall
    \/ \E b \in OscBundles : ReceiveBundle(b)
    \/ oscBundleReceived
    \/ LoadLock
    \/ LoadCopy
    \/ LoadFlag
    \/ LoadUnlock
    \/ LoadSignal

SpecBundle == Init /\ [][NextBundle]_vars

\* The thread that starts and stops OSC, noting each call it makes, with the
\* receiver dispatching send_all_parameters and the JUCE message thread.
NextFlags ==
    \/ \E connected \in BOOLEAN :
            /\ initOSCIn(connected)
            /\ lastCall' = [op |-> "initOSCIn", connected |-> connected]
    \/  /\ stopListening
        /\ lastCall' = [op |-> "stopListening", connected |-> FALSE]
    \/ \E connected \in BOOLEAN :
            /\ initOSCOut(connected)
            /\ lastCall' = [op |-> "initOSCOut", connected |-> connected]
    \/  /\ stopSending
        /\ lastCall' = [op |-> "stopSending", connected |-> FALSE]
    \/ \E m \in SendAllMessages : ReceiveMessage(m)
    \/ RunDump

SpecFlags == Init /\ [][NextFlags]_vars
(***************************************************************************)
(* Properties of the MIDI ring buffer and of the audio block scheduler.    *)
(***************************************************************************)
Min(a, b) == IF a < b THEN a ELSE b

\* The newest min(n, midiBufferSz) of the messages 1 .. n, oldest first.
NewestOf(n) ==
    [k \in 1 .. Min(n, midiBufferSz) |-> n - Min(n, midiBufferSz) + k]

\* The messages the cursors say are unread: the slots midiRP .. midiWP - 1.
Pending ==
    [k \in 1 .. BitAnd(midiWP - midiRP + midiBufferSz, midiBufferSzMask) |->
        midiBuffer[BitAnd(midiRP + k - 1, midiBufferSzMask)]]

\* C1: when the N messages are all pushed before any drain (SpecBatch), the
\* first drain applies exactly the newest min(N, midiBufferSz) of them, in
\* order: once process() has run, applied is that sequence.
C1_DrainAppliesNewest ==
    processCount >= 1 => applied = NewestOf(pushed)

\* C2: under any interleaving, (a) every message passed to applyMidi is the
\* whole value of one finished push, and (b) no finished push is lost while
\* the messages fit in the buffer: as long as at most midiBufferSz messages
\* were pushed, the applied messages followed by the unread ones are exactly
\* the messages pushed.
C2_NoLossNoTearing ==
    /\ \A k \in DOMAIN applied : applied[k] \in 1 .. pushed
    /\ pushed <= midiBufferSz => applied \o Pending = [k \in 1 .. pushed |-> k]

\* C3: FIFO order: the whole messages passed to applyMidi are messages of the
\* driver in strictly increasing order, so none is applied twice or out of
\* order.
C3_FifoOrder ==
    LET whole == SelectSeq(applied, LAMBDA v : v # Torn)
    IN  /\ \A k \in DOMAIN whole : whole[k] \in Messages
        /\ \A j, k \in DOMAIN whole : j < k => whole[j] < whole[k]

\* C4: applyMidi is called only in the block-boundary phase (pos has reached
\* BLOCK_SIZE) and changes nothing else of the scheduler; process() runs only
\* in that phase, once every message of the snapshot is applied, and resets
\* pos to 0; a frame is copied only with pos inside the block; pos changes in
\* no other way.
C4_MidiOnlyAtBlockBoundary ==
    [][ /\ applied' # applied =>
            /\ pos >= BLOCK_SIZE
            /\ UNCHANGED <<pos, processCount, out>>
        /\ processCount' # processCount =>
            /\ pos >= BLOCK_SIZE
            /\ mw = midiRP
            /\ processCount' = processCount + 1
            /\ pos' = 0
            /\ UNCHANGED <<applied, out>>
        /\ out' # out =>
            /\ pos < BLOCK_SIZE
            /\ pos' = pos + 1
            /\ UNCHANGED <<applied, processCount>>
        /\ pos' # pos => (processCount' # processCount \/ out' # out)
      ]_vars

\* C4 witness: a second block boundary was passed with MIDI applied.
C4_Witness ==
    /\ processCount = 2
    /\ Len(applied) >= 1
    /\ Len(out) > BLOCK_SIZE

\* C5 as claimed: every process() is preceded by a processBlockOSC that ran
\* after the previous process().
C5_PollBeforeEachBlock ==
    [][processCount' # processCount => oscPolledSinceProcess]_vars

\* C5 as amended: processBlockOSC runs exactly once per audio callback, at its
\* start, and every process() runs inside a callback, after that callback's
\* poll.
C5_PollOncePerCallback ==
    [][ /\ callbacks' # callbacks => oscPolls' = oscPolls + 1
        /\ oscPolls' # oscPolls =>
            /\ callbacks' = callbacks + 1
            /\ processCount' = processCount
        /\ processCount' # processCount =>
            /\ cpc # "idle"
            /\ callbacks >= 1
            /\ oscPolls = callbacks
      ]_vars

\* C5 witness: one callback, one poll, two blocks produced.
C5_Witness ==
    /\ callbacks = 1
    /\ oscPolls = 1
    /\ processCount = 2

\* C6 as claimed: a callback with numSamples = 0 changes nothing and calls
\* nothing, the OSC poll included.
C6_ZeroSamplesNoOp ==
    [][ (numSamples' = 0 /\ (cpc # "idle" \/ cpc' # "idle")) =>
            UNCHANGED <<pos, midiRP, out, applied, processCount, oscPolls>>
      ]_vars

\* C6 as amended: a callback with numSamples = 0 changes neither pos, midiRP
\* nor the output and calls neither applyMidi nor process(); it does call
\* processBlockOSC, once, on entry.
C6_ZeroSamplesOnlyPolls ==
    [][ (numSamples' = 0 /\ (cpc # "idle" \/ cpc' # "idle")) =>
            /\ UNCHANGED <<pos, midiRP, out, applied, processCount>>
            /\ oscPolls' = IF cpc = "idle" THEN oscPolls + 1 ELSE oscPolls
      ]_vars

\* C6 witness: a callback with numSamples = 0 has returned at a block boundary
\* with unread MIDI in the buffer.
C6_Witness ==
    /\ cpc = "idle"
    /\ callbacks >= 1
    /\ numSamples = 0
    /\ pos >= BLOCK_SIZE
    /\ midiWP # midiRP

(***************************************************************************)
(* Termination of the drain, cursor ownership, the output stream.          *)
(***************************************************************************)
\* The events the running drain has still to apply: the distance from midiRP
\* to the snapshot mw, modulo midiBufferSz.
DrainLeft == (mw - midiRP + midiBufferSz) % midiBufferSz

\* C17: each drain of the MIDI ring buffer terminates even while the producer
\* keeps pushing: the loop compares midiRP with a snapshot of midiWP taken
\* once, when the block-boundary phase starts, so it applies at most
\* midiBufferSz - 1 events and exits with midiRP equal to the snapshot. The
\* snapshot is taken on entering the drain and no step changes it during the
\* drain; every event applied brings midiRP one slot closer to it, and no step
\* of the producer takes it further away; the drain is left with midiRP = mw;
\* and a drain that has started comes to its end.
C17_DrainTerminates ==
    /\ [][ /\ (cpc # "drain" /\ cpc' = "drain") =>
                /\ mw' = midiWP
                /\ DrainLeft' <= midiBufferSz - 1
           /\ (cpc = "drain" /\ cpc' = "drain") =>
                /\ mw' = mw
                /\ DrainLeft' <= DrainLeft
           /\ applied' # applied =>
                /\ cpc = "drain"
                /\ Len(applied') = Len(applied) + 1
                /\ DrainLeft' = DrainLeft - 1
           /\ (cpc = "drain" /\ cpc' # "drain") =>
                /\ midiRP = mw
                /\ midiRP' = mw'
         ]_vars
    /\ (cpc = "drain") ~> (cpc = "copy")

\* A drain with midiBufferSz - 1 events to apply has ended while the producer
\* was pushing: every event of the snapshot is applied, midiRP stands at the
\* snapshot, and midiWP has moved on.
C17_Witness ==
    /\ cpc = "copy"
    /\ callbacks = 1
    /\ Len(applied) = midiBufferSz - 1
    /\ midiRP = mw
    /\ midiWP # mw

\* A step of the MIDI thread, inside handleIncomingMidiMessage.
ProducerStep == ppc' # ppc

\* A step of the audio thread, inside audioDeviceIOCallbackWithContext.
ConsumerStep == cpc' # cpc \/ applied' # applied \/ out' # out

\* C18: cursor ownership in the MIDI ring buffer. handleIncomingMidiMessage
\* changes only midiWP, by exactly one step modulo midiBufferSz, and the one
\* slot at the old midiWP, and never writes midiRP; the drain changes only
\* midiRP, one step per event applied, and never writes midiWP or a slot.
C18_CursorOwnership ==
    [][ /\ ProducerStep =>
            /\ midiRP' = midiRP
            /\ \A s \in DOMAIN midiBuffer :
                    s # midiWP => midiBuffer'[s] = midiBuffer[s]
            /\ midiWP' # midiWP => midiBuffer' = midiBuffer
            /\ midiWP' = IF ppc = "advance" THEN (midiWP + 1) % midiBufferSz
                         ELSE midiWP
            /\ UNCHANGED <<pos, applied, processCount, out, mw>>
        /\ ConsumerStep =>
            /\ midiWP' = midiWP
            /\ midiBuffer' = midiBuffer
            /\ midiRP' = IF applied' # applied THEN (midiRP + 1) % midiBufferSz
                         ELSE midiRP
            /\ Len(applied') <= Len(applied) + 1
      ]_vars

\* The producer has gone once round the buffer and the consumer has applied
\* events: midiWP has wrapped, midiRP has advanced.
C18_Witness ==
    /\ pushed = midiBufferSz + 1
    /\ midiWP = 1
    /\ midiRP = 2
    /\ Len(applied) = 2
    /\ ppc = "idle"

\* C19: whatever the numSamples of the callbacks are, pos is in
\* 0 .. BLOCK_SIZE - 1 when a sample is copied, and the output stream is made
\* of the samples 0 .. BLOCK_SIZE - 1 of every synthesized block, in order,
\* each once: the k-th frame is sample (k - 1) mod BLOCK_SIZE of block
\* (k - 1) div BLOCK_SIZE + 1, and process() has been called once for every
\* BLOCK_SIZE frames, the first time before the very first frame.
C19_OutputStream ==
    /\ \A k \in DOMAIN out :
            /\ out[k][2] \in 0 .. BLOCK_SIZE - 1
            /\ out[k] = <<((k - 1) \div BLOCK_SIZE) + 1, (k - 1) % BLOCK_SIZE>>
    /\ processCount = IF cpc = "copy"
                      THEN (Len(out) \div BLOCK_SIZE) + 1
                      ELSE (Len(out) + BLOCK_SIZE - 1) \div BLOCK_SIZE

\* Three callbacks, the second of more than BLOCK_SIZE frames, have put an odd
\* number of frames out: the third block is half read.
C19_Witness ==
    /\ callbacks = 3
    /\ cpc = "idle"
    /\ numSamples = 1
    /\ Len(out) = 2 * BLOCK_SIZE + 1
    /\ processCount = 3
    /\ pos = 1

(***************************************************************************)
(* Properties of the OSC address dispatcher.                               *)
(***************************************************************************)
\* The message of the dispatch that is running or was the last to run.
LastMsg == received[Len(received)]

BeginsWithSlash(a) == a # <<>> /\ a[1] = "/"

\* The first token of the address is "param".
FirstTokenIsParam(a) ==
    /\ Len(a) >= 6
    /\ SubSeq(a, 1, 6) = <<"/", "p", "a", "r", "a", "m">>
    /\ (Len(a) = 6 \/ a[7] = "/")

IsPatchLoad(m) == m.addr = <<"/", "p", "a", "t", "c", "h", "/", "l", "o", "a", "d">>

\* Strings joined by single spaces.
RECURSIVE JoinWithSpaces(_)
JoinWithSpaces(strs) ==
    IF strs = <<>> THEN <<>>
    ELSE IF Len(strs) = 1 THEN strs[1]
    ELSE strs[1] \o <<" ">> \o JoinWithSpaces(Tail(strs))

\* The path a patch/load message asks for: its arguments joined by single
\* spaces, followed by ".fxp".
RequestedPath(m) ==
    JoinWithSpaces([k \in DOMAIN m.args |-> m.args[k].s]) \o <<".", "f", "x", "p">>

\* The character buffer buf holds exactly the C string s.
HoldsCString(buf, s) ==
    /\ Len(s) < Len(buf)
    /\ \A k \in 1 .. Len(s) : buf[k] = s[k]
    /\ buf[Len(s) + 1] = NUL

\* The patch/load messages received so far, in order.
LoadsReceived == SelectSeq(received, IsPatchLoad)

\* C7: a message whose address does not begin with '/', the empty address
\* included, makes oscMessageReceived return normally without any effect:
\* nothing queued, the patch-load slot unchanged, no synth operation, no
\* outbound message, no error report.
C7_MalformedAddressDropped ==
    [][ (received' # received /\ ~BeginsWithSlash(received'[Len(received')].addr)) =>
            /\ oscOutcome' = "returned"
            /\ UNCHANGED <<oscRingBuf, patchid_file, has_patchid_file,
                           audioThreadOpsCalls, asyncQueue, engineCalls,
                           userDefaults, errorReports, sentOSC>>
      ]_vars

\* C8: for a message whose first token is "param": when the lookup finds no
\* parameter, or the first argument is not a float32, or there is no argument,
\* nothing is pushed on oscRingBuf and the dispatch returns; otherwise exactly
\* one message {the parameter found, the value of the first argument} is
\* pushed.
C8_ParamDispatch ==
    [][ (received' # received /\ FirstTokenIsParam(received'[Len(received')].addr)) =>
            LET m == received'[Len(received')]
                found == \E k \in DOMAIN Params : Params[k].oscName = m.addr
            IN  /\ oscOutcome' = "returned"
                /\ IF found /\ m.args # <<>> /\ m.args[1].t = "f"
                   THEN oscRingBuf' = Append(oscRingBuf,
                            [p |-> CHOOSE k \in DOMAIN Params : Params[k].oscName = m.addr,
                             f |-> m.args[1].n])
                   ELSE oscRingBuf' = oscRingBuf
      ]_vars

\* C9: a patch/load message with arguments a1..ak leaves the pending
\* patch-load request present, its path being a1..ak joined by single spaces
\* followed by ".fxp", and signals the engine exactly once: when the dispatcher
\* leaves the critical section the flag is set and patchid_file holds that
\* path, and processAudioThreadOpsWhenAudioEngineUnavailable is called once,
\* as the dispatch returns.
C9_PatchLoadRequest ==
    [][ /\ (npc = "flag" /\ npc' = "unlock") =>
            /\ has_patchid_file'
            /\ HoldsCString(patchid_file', RequestedPath(LastMsg))
        /\ (received' # received /\ IsPatchLoad(received'[Len(received')])) =>
            npc' = "lock"
        /\ (npc # "idle" /\ npc' = "idle") =>
            audioThreadOpsCalls' = audioThreadOpsCalls + 1
        /\ audioThreadOpsCalls' # audioThreadOpsCalls =>
            /\ IsPatchLoad(LastMsg)
            /\ npc = "signal"
            /\ npc' = "idle"
      ]_vars

\* C10: the slot holds at most one request, and the last writer wins: once a
\* patch/load dispatch has left the critical section, a set flag means that
\* patchid_file holds exactly the path of the last patch/load message
\* received, whatever was pending before; and every path the engine takes out
\* of the slot is exactly the path of one patch/load message, never a mixture.
C10_LastWriterWins ==
    /\ (has_patchid_file /\ npc \in {"unlock", "signal", "idle"}
            /\ LoadsReceived # <<>>) =>
        HoldsCString(patchid_file, RequestedPath(LoadsReceived[Len(LoadsReceived)]))
    /\ \A k \in DOMAIN loadedPatches :
        \E j \in DOMAIN LoadsReceived :
            HoldsCString(loadedPatches[k], RequestedPath(LoadsReceived[j]))


(***************************************************************************)
(* Properties of patch/save, tuning/path, the parameter dump, send and     *)
(* bundles.                                                                *)
(***************************************************************************)
IsPatchSave(m) == m.addr = <<"/", "p", "a", "t", "c", "h", "/", "s", "a", "v", "e">>

\* The strings of the arguments of a message.
ArgStrings(args) == [k \in DOMAIN args |-> args[k].s]

\* The message thread takes the save lambda at the head of its queue.
SaveLambdaRuns ==
    /\ asyncQueue # <<>>
    /\ Head(asyncQueue).kind = "save"
    /\ asyncQueue' = Tail(asyncQueue)

\* Every patch/save message hands exactly one lambda, holding a copy of the
\* message, to the message thread, and saves nothing on the receiver thread.
SaveHandedOff ==
    (received' # received /\ IsPatchSave(received'[Len(received')])) =>
        /\ asyncQueue' = Append(asyncQueue,
               [kind |-> "save", args |-> received'[Len(received')].args])
        /\ engineCalls' = engineCalls

\* C11: a patch/save message with no arguments triggers the default save
\* (savePatch) and no save to a path; with arguments a1..ak it triggers exactly
\* one savePatchToPath whose path is a1..ak joined by single spaces followed by
\* ".fxp", and no default save.
C11_PatchSave ==
    [][ /\ SaveHandedOff
        /\ SaveLambdaRuns =>
            LET args == Head(asyncQueue).args IN
            engineCalls' = Append(engineCalls,
                IF args = <<>>
                THEN [op |-> "savePatch", arg |-> <<>>]
                ELSE [op |-> "savePatchToPath",
                      arg |-> JoinWithSpaces(ArgStrings(args)) \o <<".", "f", "x", "p">>])
      ]_vars

\* C11, amended: the default save is triggered when the arguments joined by
\* single spaces give the empty string (no argument, or one empty string);
\* any other patch/save triggers exactly one savePatchToPath whose path is the
\* joined arguments followed by ".fxp", and no default save.
C11_PatchSaveByJoinedName ==
    [][ /\ SaveHandedOff
        /\ SaveLambdaRuns =>
            LET name == JoinWithSpaces(ArgStrings(Head(asyncQueue).args)) IN
            engineCalls' = Append(engineCalls,
                IF name = <<>>
                THEN [op |-> "savePatch", arg |-> <<>>]
                ELSE [op |-> "savePatchToPath", arg |-> name \o <<".", "f", "x", "p">>])
      ]_vars

\* Two patch/save messages, the first with one empty string, the second with
\* "a" and "b", have both been served by the message thread.
C11_Witness ==
    /\ Len(received) = 2
    /\ received[1] = [addr |-> <<"/", "p", "a", "t", "c", "h", "/", "s", "a", "v", "e">>, args |-> <<StrArg(<<>>)>>]
    /\ received[2] = [addr |-> <<"/", "p", "a", "t", "c", "h", "/", "s", "a", "v", "e">>,
                      args |-> <<StrArg(<<"a">>), StrArg(<<"b">>)>>]
    /\ asyncQueue = <<>>
    /\ engineCalls = << [op |-> "savePatch", arg |-> <<>>],
                        [op |-> "savePatchToPath", arg |-> <<"a", " ", "b", ".", "f", "x", "p">>] >>

IsTuningPath(m) ==
    m.addr \in { <<"/", "t", "u", "n", "i", "n", "g", "/", "p", "a", "t", "h", "/", "s", "c", "l">>, <<"/", "t", "u", "n", "i", "n", "g", "/", "p", "a", "t", "h", "/", "k", "b", "m">> }

\* The path argument of a message: its arguments joined by single spaces.
PathArgument(m) == JoinWithSpaces(ArgStrings(m.args))

\* C12: a tuning/path/scl or tuning/path/kbm message whose path argument is
\* not "_reset" and does not exist leaves both persisted default paths
\* (LastSCLPath, LastKBMPath) unchanged and produces exactly one reportError
\* call; no tuning or mapping file is loaded.
C12_MissingTuningPath ==
    [][ LET m == received'[Len(received')] IN
        ( /\ received' # received
          /\ IsTuningPath(m)
          /\ PathArgument(m) # <<"_", "r", "e", "s", "e", "t">>
          /\ PathArgument(m) \notin ExistingPaths ) =>
            /\ userDefaults' = userDefaults
            /\ errorReports' = errorReports + 1
            /\ engineCalls' = engineCalls
            /\ oscOutcome' = "returned"
      ]_vars

\* LastSCLPath was set to the existing path "a"; then tuning/path/scl with the
\* missing path "a b" was dispatched and reported, and LastSCLPath is still "a".
C12_Witness ==
    /\ Len(received) = 2
    /\ received[1] = [addr |-> <<"/", "t", "u", "n", "i", "n", "g", "/", "p", "a", "t", "h", "/", "s", "c", "l">>, args |-> <<StrArg(<<"a">>)>>]
    /\ received[2] = [addr |-> <<"/", "t", "u", "n", "i", "n", "g", "/", "p", "a", "t", "h", "/", "s", "c", "l">>,
                      args |-> <<StrArg(<<"a">>), StrArg(<<"b">>)>>]
    /\ errorReports = 1
    /\ userDefaults["LastSCLPath"] = [set |-> TRUE, path |-> <<"a">>]
    /\ ~userDefaults["LastKBMPath"].set

IsSendAllParameters(m) == m.addr = <<"/", "s", "e", "n", "d", "_", "a", "l", "l", "_", "p", "a", "r", "a", "m", "e", "t", "e", "r", "s">>

\* The message thread takes the dump lambda at the head of its queue.
DumpLambdaRuns ==
    /\ asyncQueue # <<>>
    /\ Head(asyncQueue).kind = "dump"
    /\ asyncQueue' = Tail(asyncQueue)

\* The value of a parameter as a string, by its declared type.
FormattedByType(p) ==
    CASE p.valtype = "vt_int" -> IntToString(p.val)
      [] p.valtype = "vt_bool" -> (IF p.val = 0 THEN <<"0">> ELSE <<"1">>)
      [] p.valtype = "vt_float" -> FloatToString(p.val)

\* msgs holds one message per parameter of the active patch, in list order,
\* each with the parameter's OSC name and, for an integer, boolean or float
\* parameter, its value formatted by type.
OnePerParameter(msgs) ==
    /\ Len(msgs) = Len(Params)
    /\ \A k \in DOMAIN Params :
        /\ msgs[k].addr = Params[k].oscName
        /\ Params[k].valtype \in {"vt_int", "vt_bool", "vt_float"} =>
            msgs[k].msg = FormattedByType(Params[k])

\* A dump that runs hands exactly one message per parameter to the sender.
DumpSendsOnePerParameter ==
    DumpLambdaRuns =>
        /\ Len(sentOSC') = Len(sentOSC) + Len(Params)
        /\ SubSeq(sentOSC', 1, Len(sentOSC)) = sentOSC
        /\ OnePerParameter(SubSeq(sentOSC', Len(sentOSC) + 1, Len(sentOSC')))

\* C13: a send_all_parameters message with N parameters in the active patch
\* produces exactly N outbound messages, one per parameter in list order, each
\* carrying the parameter's OSC name and its value formatted by declared type:
\* every such message queues one dump, and a dump sends the N messages.
C13_SendAllParameters ==
    [][ /\ (received' # received /\ IsSendAllParameters(received'[Len(received')])) =>
            asyncQueue' = Append(asyncQueue, [kind |-> "dump", args |-> <<>>])
        /\ DumpSendsOnePerParameter
      ]_vars

\* C13, amended: the N messages are produced only when sending is enabled
\* (sendingOSC) at the time the send_all_parameters message is dispatched; with
\* sending disabled the message queues nothing and produces no outbound
\* message; outbound messages leave only from a lambda on the message thread.
C13_SendAllParametersWhenSending ==
    [][ /\ (received' # received /\ IsSendAllParameters(received'[Len(received')])) =>
            /\ sendingOSC =>
                asyncQueue' = Append(asyncQueue, [kind |-> "dump", args |-> <<>>])
            /\ ~sendingOSC => asyncQueue' = asyncQueue
            /\ sentOSC' = sentOSC
        /\ DumpSendsOnePerParameter
        /\ sentOSC' # sentOSC => (asyncQueue # <<>> /\ asyncQueue' = Tail(asyncQueue))
      ]_vars

\* One send_all_parameters was dispatched with sending disabled and one with
\* sending enabled; the one dump has run: 0.5, 7 and true went out as
\* "0.500000", "7" and "1".
C13_Witness ==
    /\ Len(received) = 2
    /\ IsSendAllParameters(received[1])
    /\ IsSendAllParameters(received[2])
    /\ asyncQueue = <<>>
    /\ Len(sentOSC) = Len(Params)
    /\ sentOSC[1] = [addr |-> <<"/", "p", "a", "r", "a", "m", "/", "a">>, msg |-> <<"0", ".", "5", "0", "0", "0", "0", "0">>]
    /\ sentOSC[2] = [addr |-> <<"/", "p", "a", "r", "a", "m", "/", "b">>, msg |-> <<"7">>]
    /\ sentOSC[3] = [addr |-> <<"/", "p", "a", "r", "a", "m", "/", "c">>, msg |-> <<"1">>]
    /\ sentOSC[4].addr = <<"/", "p", "a", "r", "a", "m", "/", "d">>

\* The lambda send queues for the call c.
SendTask(c) == [kind |-> "send", args |-> <<StrArg(c.addr), StrArg(c.msg)>>]

\* The message thread takes the send lambda at the head of its queue.
SendLambdaRuns ==
    /\ asyncQueue # <<>>
    /\ Head(asyncQueue).kind = "send"
    /\ asyncQueue' = Tail(asyncQueue)

IsSendTask(t) == t.kind = "send"
FromSend(e) == e.addr \in {c.addr : c \in SendInputs}
MadeWhileSending(c) == c.on

\* The (address, value) pairs of the transmission attempts made for send
\* calls, of the send lambdas still queued, and of the calls, in order.
Transmitted == SelectSeq(sentOSC, FromSend)
QueuedSends ==
    LET q == SelectSeq(asyncQueue, IsSendTask)
    IN  [k \in DOMAIN q |-> [addr |-> q[k].args[1].s, msg |-> q[k].args[2].s]]
CallsOf(calls) == [k \in DOMAIN calls |-> [addr |-> calls[k].addr, msg |-> calls[k].msg]]

\* A transmission attempt is made by the lambda at the head of the message
\* thread's queue, once, whatever the transport reports: the lambda is gone
\* afterwards.
OneAttemptNoRetry ==
    /\ SendLambdaRuns =>
            sentOSC' = Append(sentOSC, [addr |-> Head(asyncQueue).args[1].s,
                                       msg |-> Head(asyncQueue).args[2].s])
    /\ (asyncQueue # <<>> /\ Head(asyncQueue).kind = "send"
            /\ (sentOSC' # sentOSC \/ sendErrors' # sendErrors)) =>
            asyncQueue' = Tail(asyncQueue)

\* C14: send never transmits on the calling thread, it only queues a task for
\* the message thread; the transmissions occur in the order of the calls, one
\* transmission attempt per call, a failed attempt not being retried: every
\* call queues one lambda, and the attempts made followed by the lambdas still
\* queued are the calls in call order.
C14_SendInCallOrder ==
    /\ [][ /\ sendCalls' # sendCalls =>
                /\ sentOSC' = sentOSC
                /\ asyncQueue' = Append(asyncQueue, SendTask(sendCalls'[Len(sendCalls')]))
            /\ OneAttemptNoRetry
          ]_vars
    /\ [](Transmitted \o QueuedSends = CallsOf(sendCalls))

\* C14, amended: a call of send made while sending is disabled (sendingOSC
\* false) queues nothing and is never transmitted; the calls made while
\* sending is enabled each queue one lambda and get one transmission attempt
\* each, in call order, on the message thread.
C14_SendInCallOrderWhenSending ==
    /\ [][ /\ sendCalls' # sendCalls =>
                /\ sentOSC' = sentOSC
                /\ sendingOSC =>
                    asyncQueue' = Append(asyncQueue, SendTask(sendCalls'[Len(sendCalls')]))
                /\ ~sendingOSC => asyncQueue' = asyncQueue
            /\ OneAttemptNoRetry
          ]_vars
    /\ [](Transmitted \o QueuedSends = CallsOf(SelectSeq(sendCalls, MadeWhileSending)))

\* "2" was sent with sending enabled, "1" with sending disabled and "1" again
\* with sending enabled; both lambdas have run, one transmission failed:
\* "2" and "1" went to the transport, in that order, once each.
C14_Witness ==
    /\ sendCalls = << [addr |-> <<"/", "x">>, msg |-> <<"2">>, on |-> TRUE],
                      [addr |-> <<"/", "x">>, msg |-> <<"1">>, on |-> FALSE],
                      [addr |-> <<"/", "x">>, msg |-> <<"1">>, on |-> TRUE] >>
    /\ asyncQueue = <<>>
    /\ Transmitted = << [addr |-> <<"/", "x">>, msg |-> <<"2">>],
                        [addr |-> <<"/", "x">>, msg |-> <<"1">>] >>
    /\ sendErrors = 1

\* The messages of a bundle, those of nested bundles included, in element
\* order.
RECURSIVE MessagesOf(_)
MessagesOf(b) ==
    IF b = <<>> THEN <<>>
    ELSE (IF Head(b).isMessage THEN <<Head(b).msg>> ELSE MessagesOf(Head(b).bundle))
            \o MessagesOf(Tail(b))

RECURSIVE MessagesOfAll(_)
MessagesOfAll(bs) ==
    IF bs = <<>> THEN <<>> ELSE MessagesOf(Head(bs)) \o MessagesOfAll(Tail(bs))

IsPrefix(s, t) == Len(s) <= Len(t) /\ SubSeq(t, 1, Len(s)) = s

\* C15: oscBundleReceived dispatches every message of a bundle, those of
\* nested bundles included, exactly once and in element order, each through
\* oscMessageReceived; a message that is dropped or that ends with an error
\* report does not keep the later elements from being dispatched: the
\* messages dispatched so far are the first messages of the bundles received,
\* once no oscBundleReceived is running they are all of them, and while one is
\* running nothing has stopped its loop.
C15_BundleDispatch ==
    /\ IsPrefix(received, MessagesOfAll(bundlesReceived))
    /\ (bundleStack = <<>> /\ npc = "idle") =>
            received = MessagesOfAll(bundlesReceived)
    /\ bundleStack # <<>> => Alive

\* C16: during the dispatch of patch/load, patchLoadSpawnMutex is held only
\* while the path and the flag are written; it is released before
\* processAudioThreadOpsWhenAudioEngineUnavailable is called, so the dispatcher
\* never holds it while the engine-side consumer runs, and never waits for a
\* mutex it holds.
C16_MutexOnlyAroundTheWrite ==
    /\ patchLoadSpawnMutex = "osc" <=> npc \in {"copy", "flag", "unlock"}
    /\ npc = "signal" => patchLoadSpawnMutex # "osc"
    /\ npc = "lock" => patchLoadSpawnMutex # "osc"
    /\ epc \in {"take", "unlock"} =>
            /\ patchLoadSpawnMutex = "engine"
            /\ npc \notin {"copy", "flag", "unlock"}

\* The dispatcher has released the mutex and is about to call
\* processAudioThreadOpsWhenAudioEngineUnavailable, while the engine-side
\* consumer holds the mutex and takes the request out.
C16_Witness ==
    /\ npc = "signal"
    /\ epc = "take"
    /\ patchLoadSpawnMutex = "engine"
    /\ has_patchid_file

\* C20: after any sequence of initOSCIn, stopListening, initOSCOut and
\* stopSending calls, connect succeeding or failing, the dispatcher's own flags
\* equal the engine-visible ones: listening = storage.oscListenerRunning and
\* sendingOSC = storage.oscSending; and a failed connect changes none of the
\* four flags.
C20_FlagsAgree ==
    /\ [](listening = oscListenerRunning /\ sendingOSC = oscSending)
    /\ [][ ( /\ lastCall' # lastCall
             /\ lastCall'.op \in {"initOSCIn", "initOSCOut"}
             /\ ~lastCall'.connected ) =>
                UNCHANGED <<listening, oscListenerRunning, sendingOSC, oscSending>>
         ]_vars

\* Listening was started and stopped, sending was started, and the last call,
\* an initOSCIn whose connect failed, left the flags as they were.
C20_Witness ==
    /\ lastCall = [op |-> "initOSCIn", connected |-> FALSE]
    /\ ~listening
    /\ ~oscListenerRunning
    /\ sendingOSC
    /\ oscSending
    /\ received # <<>>

(***************************************************************************)
(* Properties of the outbound sender while sending is disabled, and of the *)
(* value strings of a parameter dump.                                      *)
(***************************************************************************)
\* C21: no outbound OSC message is transmitted while sending is disabled:
\* send and sendAllParams called while sendingOSC is false queue nothing, and
\* juceOSCSender transmits only while sendingOSC is true, so that after
\* stopSending has returned nothing goes out until initOSCOut succeeds again,
\* the lambdas queued before stopSending included.
C21_NoSendWhileDisabled ==
    [][ /\ (~sendingOSC /\ (sendCalls' # sendCalls \/ received' # received)) =>
                asyncQueue' = asyncQueue
        /\ sentOSC' # sentOSC => sendingOSC
      ]_vars

\* C22: in a parameter dump the value string of every outbound message is
\* derived from the parameter whose OSC name the message carries, whatever
\* the value type of the parameter, never from an earlier parameter of the
\* iteration: the k-th message of a dump is the message a dump that starts at
\* the k-th parameter sends first.
C22_DumpValueOfOwnParameter ==
    [][ (asyncQueue # <<>> /\ Head(asyncQueue).kind = "dump"
            /\ asyncQueue' = Tail(asyncQueue)) =>
            /\ Len(sentOSC') = Len(sentOSC) + Len(Params)
            /\ \A k \in DOMAIN Params :
                    sentOSC'[Len(sentOSC) + k] = DumpFrom(k, <<>>)[1]
      ]_vars
====
